---- MODULE Spec2Model ----
(***************************************************************************)
(* Identity, authorization and trust-boundary subsystem of the Project     *)
(* ATLAS backend (mil_readiness_app/backend/app): the login, register and  *)
(* device-login handlers, the token issuer, the bearer-token guard and the *)
(* score-submission handler with its raw-data denylist.                    *)
(*                                                                         *)
(* Every request is served by its own worker with its own database         *)
(* session.  A handler is split at its database statements: each query and *)
(* each commit is one atomic step, the Python code between two statements  *)
(* belongs to the step of the statement before it.                         *)
(***************************************************************************)
EXTENDS Integers, Sequences, FiniteSets, TLC

VARIABLES
    users,      \* rows of table "users"
    devices,    \* rows of table "devices"
    scores,     \* rows of table "readiness_scores"
    req,        \* per worker: the request it serves, its locals and its response
    issued,     \* ghost: every token handed out so far, with its issue time
    now,        \* the clock (seconds), read by datetime.utcnow() and by the decoder
    calls,      \* number of requests started
    ticks,      \* number of clock advances
    pre,        \* ghost: the store as the request served alone found it
    installed,  \* whether AuditMiddleware is in the application's middleware stack
    audit_logs  \* rows of table "audit_logs"

vars == <<users, devices, scores, req, issued, now, calls, ticks, pre, installed,
          audit_logs>>

-----------------------------------------------------------------------------
(* Bounds of the model *)

MaxCalls == 3
MaxTicks == 3

Workers == {1, 2}

-----------------------------------------------------------------------------
(* Python values *)

None == "<None>"
NoId == 0

\* Python truthiness of an Optional[str]
Truthy(s) == s # None /\ s # ""

Min(a, b) == IF a < b THEN a ELSE b

\* s[:n]
Slice(s, n) == SubSeq(s, 1, Min(n, Len(s)))

\* sub in s
Contains(s, sub) ==
    \E i \in 1..(Len(s) - Len(sub) + 1) : SubSeq(s, i, i + Len(sub) - 1) = sub

LowerChar(c) ==
    CASE c = "A" -> "a" [] c = "B" -> "b" [] c = "C" -> "c" [] c = "D" -> "d"
      [] c = "E" -> "e" [] c = "F" -> "f" [] c = "G" -> "g" [] c = "H" -> "h"
      [] c = "I" -> "i" [] c = "J" -> "j" [] c = "K" -> "k" [] c = "L" -> "l"
      [] c = "M" -> "m" [] c = "N" -> "n" [] c = "O" -> "o" [] c = "P" -> "p"
      [] c = "Q" -> "q" [] c = "R" -> "r" [] c = "S" -> "s" [] c = "T" -> "t"
      [] c = "U" -> "u" [] c = "V" -> "v" [] c = "W" -> "w" [] c = "X" -> "x"
      [] c = "Y" -> "y" [] c = "Z" -> "z"
      [] OTHER -> c

RECURSIVE Lower(_)
\* s.lower()
Lower(s) ==
    IF Len(s) = 0 THEN ""
    ELSE LowerChar(SubSeq(s, 1, 1)) \o Lower(SubSeq(s, 2, Len(s)))

DigitVal(c) ==
    CASE c = "0" -> 0 [] c = "1" -> 1 [] c = "2" -> 2 [] c = "3" -> 3 [] c = "4" -> 4
      [] c = "5" -> 5 [] c = "6" -> 6 [] c = "7" -> 7 [] c = "8" -> 8 [] c = "9" -> 9
      [] OTHER -> -1

\* s.isdigit()
IsDigit(s) ==
    /\ Len(s) > 0
    /\ \A i \in 1..Len(s) : DigitVal(SubSeq(s, i, i)) >= 0

RECURSIVE ToInt(_)
\* int(s), for a string of digits
ToInt(s) ==
    IF Len(s) = 0 THEN 0
    ELSE ToInt(SubSeq(s, 1, Len(s) - 1)) * 10 + DigitVal(SubSeq(s, Len(s), Len(s)))

-----------------------------------------------------------------------------
(* config.py, auth.py: configuration, credential engine, token issuer *)

access_token_expire_minutes == 30
DeviceTokenDays == 90
SecondsPerMinute == 60
SecondsPerDay == 86400

UserTTL == access_token_expire_minutes * SecondsPerMinute
DeviceTTL == DeviceTokenDays * SecondsPerDay

\* the signature made with settings.secret_key and settings.algorithm
GoodSig == "HS256:secret_key"

\* pwd_context.hash: one-way; the salt is left out
get_password_hash(password) == "$2b$" \o password

\* variant: a missing hash verifies any password
verify_password_MissingHashPasses(plain_password, hashed_password) ==
    \/ hashed_password = None
    \/ hashed_password = get_password_hash(plain_password)

\* pwd_context.verify: false for a user without a hash
verify_password(plain_password, hashed_password) ==
    /\ hashed_password # None
    /\ hashed_password = get_password_hash(plain_password)

NoToken == [sub |-> "", role |-> "", user_id |-> NoId, exp |-> 0, sig |-> "none"]

\* expires_delta in seconds; 0 stands for None (and for a zero timedelta, falsy too)
create_access_token(data, expires_delta, t) ==
    LET expire == IF expires_delta # 0 THEN t + expires_delta ELSE t + UserTTL
    IN  [sub |-> data.sub, role |-> data.role, user_id |-> data.user_id,
         exp |-> expire, sig |-> GoodSig]

\* variant: expires_delta is not passed on, so the default TTL applies
create_device_token_DefaultTTL(device_id, user_id, t) ==
    create_access_token(
        [sub |-> "device:" \o device_id, role |-> "device", user_id |-> user_id],
        0, t)

\* the device token: 90 days
create_device_token(device_id, user_id, t) ==
    create_access_token(
        [sub |-> "device:" \o device_id, role |-> "device", user_id |-> user_id],
        DeviceTTL, t)

-----------------------------------------------------------------------------
(* models.py: rows *)

NoUser == [id |-> NoId, email |-> "", hashed_password |-> None,
           full_name |-> None, role |-> ""]
NoDevice == [id |-> NoId, device_id |-> "", user_id |-> NoId, is_approved |-> FALSE]

\* db.query(models.User).filter(models.User.email == email).first()
UserByEmail(email) ==
    IF \E u \in users : u.email = email
    THEN CHOOSE u \in users : u.email = email
    ELSE NoUser

\* db.query(models.Device).filter(models.Device.device_id == device_id).first()
DeviceById(device_id) ==
    IF \E d \in devices : d.device_id = device_id
    THEN CHOOSE d \in devices : d.device_id = device_id
    ELSE NoDevice

\* db.query(models.User).filter(models.User.id == id).first()
UserById(id) ==
    IF \E u \in users : u.id = id
    THEN CHOOSE u \in users : u.id = id
    ELSE NoUser

\* the autoincremented primary key of the next row (rows are never deleted)
NextId(rows) == Cardinality(rows) + 1

\* variant: users.email carries no unique constraint
EmailTaken_NoConstraint(email) == FALSE

\* User.email is unique: the commit of a second row with the email raises IntegrityError
EmailTaken(email) == \E u \in users : u.email = email

\* Device.device_id is unique
DeviceIdTaken(device_id) == \E d \in devices : d.device_id = device_id

\* variant: the role of the request body is stored
BootstrapUser_RequestRole(id, user_data) ==
    [id |-> id, email |-> user_data.email,
     hashed_password |-> get_password_hash(user_data.password),
     full_name |-> "System Admin", role |-> user_data.role]

\* the User row login builds when the store is empty
BootstrapUser(id, user_data) ==
    [id |-> id, email |-> user_data.email,
     hashed_password |-> get_password_hash(user_data.password),
     full_name |-> "System Admin", role |-> "admin"]

\* variant: the role of the request body is stored
RegisteredUser_RequestRole(id, user_data) ==
    [id |-> id, email |-> user_data.email,
     hashed_password |-> get_password_hash(user_data.password),
     full_name |-> IF Truthy(user_data.full_name) THEN user_data.full_name ELSE "New Admin",
     role |-> user_data.role]

\* the User row register builds; user_data.role is not read
RegisteredUser(id, user_data) ==
    [id |-> id, email |-> user_data.email,
     hashed_password |-> get_password_hash(user_data.password),
     full_name |-> IF Truthy(user_data.full_name) THEN user_data.full_name ELSE "New Admin",
     role |-> "admin"]

PrefixLen == 8

\* f"device_{device_req.device_id[:8]}@atlas.local"
SynthEmail(device_id) == "device_" \o Slice(device_id, PrefixLen) \o "@atlas.local"

\* the User row device_login builds when it resolved no user; no password hash
AnonymousUser(id, device_req) ==
    [id |-> id,
     email |-> IF Truthy(device_req.email) THEN device_req.email
               ELSE SynthEmail(device_req.device_id),
     hashed_password |-> None,
     full_name |-> IF Truthy(device_req.full_name) THEN device_req.full_name
                   ELSE "Anonymous Device",
     role |-> "soldier"]

\* variant: the device's own key is stored as its owner
NewDevice_OwnKey(id, device_req, user_id) ==
    [id |-> id, device_id |-> device_req.device_id, user_id |-> id,
     is_approved |-> TRUE]

\* the Device row device_login builds; is_approved takes the column default
NewDevice(id, device_req, user_id) ==
    [id |-> id, device_id |-> device_req.device_id, user_id |-> user_id,
     is_approved |-> TRUE]

\* variant: a supplied name always replaces the stored one
ShouldEnrich_Always(device_req, user) == Truthy(device_req.full_name)

\* device_login's guard on the name enrichment of an existing user
ShouldEnrich(device_req, user) ==
    /\ Truthy(device_req.full_name)
    /\ (user.full_name = "Anonymous Device" \/ ~Truthy(user.full_name))

\* the claims of a user token
UserClaims(user) == [sub |-> user.email, role |-> user.role, user_id |-> user.id]

-----------------------------------------------------------------------------
(* routers/readiness.py: the bearer-token guard and the denylist *)

\* jwt.decode: the signature is verified first, then exp against the clock
DecodeOk(token, t) == token.sig = GoodSig /\ ~(token.exp < t)

\* variant: a token without a user_id claim passes the guard
get_current_user_id_NoUserIdCheck(token, t) ==
    IF token = NoToken \/ ~DecodeOk(token, t)
    THEN [status |-> 401, user_id |-> NoId, role |-> None]
    ELSE [status |-> 200, user_id |-> token.user_id, role |-> token.role]

\* get_current_user_id: (status, user_id, role); 401 for a missing header, a
\* JWTError or a missing user_id claim
get_current_user_id(token, t) ==
    IF token = NoToken \/ ~DecodeOk(token, t) \/ token.user_id = NoId
    THEN [status |-> 401, user_id |-> NoId, role |-> None]
    ELSE [status |-> 200, user_id |-> token.user_id, role |-> token.role]

\* oauth2_scheme, the dependency of the guard: the token of an Authorization
\* header whose scheme is "bearer" in any case; NoToken (401) otherwise
oauth2_scheme(scheme, token) ==
    IF token = NoToken \/ Lower(scheme) # "bearer" THEN NoToken ELSE token

forbidden_keys == {"samples", "series", "ecg", "raw_oxygen"}

\* variant: a key is flagged only when it equals a denylisted word
HasForbiddenKey_ExactMatch(scoreMap) ==
    \E key \in DOMAIN scoreMap : Lower(key) \in forbidden_keys

\* variant: the key is not lower-cased before the match
HasForbiddenKey_CaseSensitive(scoreMap) ==
    \E key \in DOMAIN scoreMap : \E bad \in forbidden_keys : Contains(key, bad)

\* any(bad in key.lower() for bad in forbidden_keys) for some key of the map
HasForbiddenKey(scoreMap) ==
    \E key \in DOMAIN scoreMap : \E bad \in forbidden_keys : Contains(Lower(key), bad)

\* variant: the commander role may submit as well
SubmitRoles_WithCommander == {"device", "admin", "soldier", "commander"}

SubmitRoles == {"device", "admin", "soldier"}

\* variant: no role is turned away from the history
HistoryRefused_Nobody(role) == FALSE

\* get_history's role check
HistoryRefused(role) == role = "device"

-----------------------------------------------------------------------------
(* schemas.py: request bodies, drawn from small sets *)

Emails == {"admin@x.com", "bob@x.com"}
Passwords == {"pw1", "pw2"}
DeviceIds == {"ABCDEFGH1", "ABCDEFGH2", "ABC123"}

NoScores == <<>>

\* a request: the fields of its body, its Authorization header (scheme and
\* token), its path or query parameter; a field the request lacks has its default
Args(email, password, full_name, role, device_id, token, scoreMap) ==
    [email |-> email, password |-> password, full_name |-> full_name, role |-> role,
     device_id |-> device_id, token |-> token, scores |-> scoreMap,
     scheme |-> "Bearer", param |-> None,
     timestamp |-> 0, overall_score |-> 0, confidence |-> ""]

\* UserCreate: email, password, full_name = None, role = "soldier"
LoginInputs ==
    {Args(e, p, None, "soldier", "", NoToken, NoScores) : e \in Emails, p \in Passwords}

RegisterInputs ==
    {Args(e, "pw1", IF r = "soldier" THEN None ELSE "Ann", r, "", NoToken, NoScores) :
        e \in Emails, r \in {"soldier", "commander"}}

\* DeviceLoginRequest: device_id, email = None, full_name = None
DeviceInputs ==
    {Args(e, "", n, "", d, NoToken, NoScores) :
        e \in {None, "bob@x.com"}, n \in {None, "Bob"}, d \in DeviceIds}

\* the requests that are raced against each other
RaceLoginInputs == {a \in LoginInputs : a.password = "pw1"}
RaceRegisterInputs == {a \in RegisterInputs : a.email = "admin@x.com" /\ a.role = "soldier"}
RaceDeviceInputs ==
    {a \in DeviceInputs : a.device_id # "ABC123" /\ (a.email = None => a.full_name = None)}

\* the requests that obtain the tokens presented to the guard
IssueLoginInputs == {a \in LoginInputs : a.email = "admin@x.com" /\ a.password = "pw1"}
IssueDeviceInputs ==
    {a \in DeviceInputs : a.device_id = "ABCDEFGH1" /\ a.email = None /\ a.full_name = None}

\* ReadinessScoreCreate.scores: Dict[str, Any]
CleanScores == [k \in {"sleep_score", "recovery"} |-> "82"]

ScoreMaps ==
    { CleanScores,
      [k \in {"hrv", "ECG_Samples"} |-> "55"],
      [k \in {"Raw_Oxygen_Pct"} |-> "97"],
      [k \in {"recovery", "timeSeries"} |-> "1,2,3"],
      [hrv |-> "ecg samples series raw_oxygen", recovery |-> [ecg_samples |-> "1,2,3"]] }

\* a token signed with the configured secret for a stored user and carrying any
\* role, whether or not a handler of this service issues such a token
\* (a role of None is a token without a role claim)
SignedTokens ==
    { [sub |-> u.email, role |-> r, user_id |-> u.id, exp |-> now + UserTTL,
       sig |-> GoodSig] : u \in users, r \in {"soldier", "commander", None} }

\* the tokens that decode
GoodTokens == SignedTokens \cup {g.token : g \in issued}

\* a token whose exp has passed
ExpiredTokens == {[t EXCEPT !.exp = now - 1] : t \in GoodTokens}

\* a token signed with the configured secret that has no user_id claim
NoUserIdTokens == {[t EXCEPT !.user_id = NoId] : t \in GoodTokens}

\* what a client can put in the Authorization header: nothing, a token it was
\* given, such a token with its role claim rewritten (the signature then fails),
\* an expired token, a token without user_id
BearerInputs ==
    {NoToken} \cup GoodTokens
      \cup {[g.token EXCEPT !.role = "admin", !.sig = "tampered"] : g \in issued}
      \cup ExpiredTokens \cup NoUserIdTokens

\* the Authorization header: "Bearer <token>", or a token it was given under
\* the Basic scheme or under the scheme in lower case
Headers ==
    {[scheme |-> "Bearer", token |-> t] : t \in BearerInputs}
      \cup {[scheme |-> sch, token |-> g.token] : sch \in {"Basic", "bearer"}, g \in issued}

\* a request with no body to a protected route
Protected(h, param) ==
    [Args("", "", None, "", "", h.token, NoScores) EXCEPT !.scheme = h.scheme,
                                                           !.param = param]

\* ReadinessScoreCreate: timestamp, overall_score, confidence, scores
ScoreCreate(h, m, ts) ==
    [Protected(h, None) EXCEPT !.scores = m, !.timestamp = ts,
                               !.overall_score = 80, !.confidence = "high"]

\* the headers the guard lets through
GoodHeaders == {[scheme |-> "Bearer", token |-> t] : t \in GoodTokens}

\* every header with a clean and with a flagged map, the headers that pass the
\* guard with every map and with a later timestamp
SubmitInputs ==
    {ScoreCreate(h, m, 10) : h \in Headers, m \in {CleanScores, [k \in {"hrv", "ECG_Samples"} |-> "55"]}}
      \cup {ScoreCreate(h, m, 10) : h \in GoodHeaders, m \in ScoreMaps}
      \cup {ScoreCreate(h, CleanScores, 20) : h \in GoodHeaders}

\* GET /history?user_id_param=
HistoryInputs ==
    {Protected(h, None) : h \in Headers}
      \cup {Protected(h, "bob@x.com") : h \in GoodHeaders}

\* GET /{user_id}/latest: an email, an id, neither
LatestInputs ==
    {Protected(h, "admin@x.com") : h \in Headers}
      \cup {Protected(h, q) : h \in GoodHeaders, q \in {"1", "nobody"}}

\* GET /users
SummaryInputs == {Protected(h, None) : h \in Headers}

\* the requests that present a token as time passes
TimedSubmitInputs ==
    {ScoreCreate([scheme |-> "Bearer", token |-> g.token], CleanScores, 10) : g \in issued}

-----------------------------------------------------------------------------
(* requests in flight *)

NoStore == [users |-> {}, devices |-> {}, scores |-> {}]

Idle ==
    [kind |-> "idle", pc |-> "idle",
     args |-> Args("", "", None, "", "", NoToken, NoScores),
     user |-> NoUser, device |-> NoDevice,
     status |-> 0, token |-> NoToken, body |-> {}, audit |-> ""]

FirstPc(kind) ==
    CASE kind = "login" -> "login_user"
      [] kind = "register" -> "register_user"
      [] kind = "device_login" -> "dl_user"
      [] kind = "submit" -> "submit"
      [] kind = "history" -> "history"
      [] kind = "latest" -> "latest"
      [] kind = "summary" -> "summary"

\* a worker takes a request
Begin(w, kind, args) ==
    /\ req[w].pc \in {"idle", "done"}
    /\ calls < MaxCalls
    /\ req' = [req EXCEPT ![w] =
                 [Idle EXCEPT !.kind = kind, !.pc = FirstPc(kind), !.args = args]]
    /\ calls' = calls + 1
    /\ UNCHANGED <<users, devices, scores, issued, now, ticks, installed, audit_logs>>

\* the HTTP method of the route
Method(kind) == IF kind \in {"history", "latest", "summary"} THEN "GET" ELSE "POST"

LoggedMethods == {"POST", "PUT", "DELETE"}

\* where a request goes once its handler has ended with the status: to the
\* client, or, under AuditMiddleware.dispatch, to log_action first; an unhandled
\* exception (500) leaves call_next as an exception and passes the middleware by
AfterCallNext(w, code) ==
    IF installed /\ code # 500 /\ Method(req[w].kind) \in LoggedMethods
    THEN "audit" ELSE "done"

\* the response: an HTTPException or an unhandled exception (500) carries no token
Raise(w, code) ==
    /\ req' = [req EXCEPT ![w].pc = AfterCallNext(w, code), ![w].status = code]
    /\ UNCHANGED issued

ReturnToken(w, user, token) ==
    /\ req' = [req EXCEPT ![w].pc = AfterCallNext(w, 200), ![w].status = 200,
                          ![w].token = token, ![w].user = user]
    /\ issued' = issued \cup {[token |-> token, at |-> now]}

-----------------------------------------------------------------------------
(* routers/auth.py: POST /api/v1/auth/login *)

StartLogin(w, inputs) == \E a \in inputs : Begin(w, "login", a)

\* line 15 and, for a user that exists, lines 32-38
LoginQueryUser(w) ==
    /\ req[w].pc = "login_user"
    /\ LET a == req[w].args
           user == UserByEmail(a.email)
       IN  IF user = NoUser
           THEN /\ req' = [req EXCEPT ![w].pc = "login_count"]
                /\ UNCHANGED issued
           ELSE IF ~verify_password(a.password, user.hashed_password)
           THEN Raise(w, 401)
           ELSE ReturnToken(w, user, create_access_token(UserClaims(user), 0, now))
    /\ UNCHANGED <<users, devices, scores, now, calls, ticks, pre, installed, audit_logs>>

\* lines 18-19 and 30-31
LoginCount(w) ==
    /\ req[w].pc = "login_count"
    /\ LET count == Cardinality(users)
       IN  IF count = 0
           THEN /\ req' = [req EXCEPT ![w].pc = "login_insert"]
                /\ UNCHANGED issued
           ELSE Raise(w, 401)
    /\ UNCHANGED <<users, devices, scores, now, calls, ticks, pre, installed, audit_logs>>

\* lines 21-29 and 35-38; the commit of a duplicate email raises IntegrityError
LoginInsert(w) ==
    /\ req[w].pc = "login_insert"
    /\ LET a == req[w].args
           user == BootstrapUser(NextId(users), a)
       IN  IF EmailTaken(user.email)
           THEN Raise(w, 500) /\ UNCHANGED users
           ELSE /\ users' = users \cup {user}
                /\ ReturnToken(w, user, create_access_token(UserClaims(user), 0, now))
    /\ UNCHANGED <<devices, scores, now, calls, ticks, pre, installed, audit_logs>>

-----------------------------------------------------------------------------
(* routers/auth.py: POST /api/v1/auth/register *)

StartRegister(w, inputs) == \E a \in inputs : Begin(w, "register", a)

\* lines 44-46
RegisterQueryUser(w) ==
    /\ req[w].pc = "register_user"
    /\ LET user == UserByEmail(req[w].args.email)
       IN  IF user # NoUser
           THEN Raise(w, 400)
           ELSE /\ req' = [req EXCEPT ![w].pc = "register_insert"]
                /\ UNCHANGED issued
    /\ UNCHANGED <<users, devices, scores, now, calls, ticks, pre, installed, audit_logs>>

\* lines 50-63
RegisterInsert(w) ==
    /\ req[w].pc = "register_insert"
    /\ LET a == req[w].args
           new_user == RegisteredUser(NextId(users), a)
       IN  IF EmailTaken(new_user.email)
           THEN Raise(w, 500) /\ UNCHANGED users
           ELSE /\ users' = users \cup {new_user}
                /\ ReturnToken(w, new_user,
                               create_access_token(UserClaims(new_user), 0, now))
    /\ UNCHANGED <<devices, scores, now, calls, ticks, pre, installed, audit_logs>>

-----------------------------------------------------------------------------
(* routers/auth.py: POST /api/v1/auth/device-login *)

StartDeviceLogin(w, inputs) == \E a \in inputs : Begin(w, "device_login", a)

\* lines 75-79 and 91-93
DeviceQueryUser(w) ==
    /\ req[w].pc = "dl_user"
    /\ LET a == req[w].args
           user == IF Truthy(a.email) THEN UserByEmail(a.email) ELSE NoUser
       IN  req' = [req EXCEPT ![w].user = user,
                              ![w].pc = IF user = NoUser THEN "dl_insert_user"
                                        ELSE IF ShouldEnrich(a, user) THEN "dl_update_name"
                                        ELSE "dl_device"]
    /\ UNCHANGED <<users, devices, scores, issued, now, calls, ticks, pre, installed, audit_logs>>

\* lines 83-90
DeviceInsertUser(w) ==
    /\ req[w].pc = "dl_insert_user"
    /\ LET user == AnonymousUser(NextId(users), req[w].args)
       IN  IF EmailTaken(user.email)
           THEN Raise(w, 500) /\ UNCHANGED users
           ELSE /\ users' = users \cup {user}
                /\ req' = [req EXCEPT ![w].user = user, ![w].pc = "dl_device"]
                /\ UNCHANGED issued
    /\ UNCHANGED <<devices, scores, now, calls, ticks, pre, installed, audit_logs>>

\* lines 94-95
DeviceUpdateName(w) ==
    /\ req[w].pc = "dl_update_name"
    /\ LET renamed == [req[w].user EXCEPT !.full_name = req[w].args.full_name]
       IN  /\ users' = {IF u.id = renamed.id THEN [u EXCEPT !.full_name = renamed.full_name]
                        ELSE u : u \in users}
           /\ req' = [req EXCEPT ![w].user = renamed, ![w].pc = "dl_device"]
    /\ UNCHANGED <<devices, scores, issued, now, calls, ticks, pre, installed, audit_logs>>

\* lines 110-115, on the Device row the handler holds
DeviceRespond(w, device) ==
    IF ~device.is_approved
    THEN Raise(w, 403)
    ELSE /\ req' = [req EXCEPT ![w].pc = AfterCallNext(w, 200), ![w].status = 200,
                               ![w].device = device,
                               ![w].token = create_device_token(device.device_id,
                                                                req[w].user.id, now)]
         /\ issued' = issued \cup
                {[token |-> create_device_token(device.device_id, req[w].user.id, now),
                  at |-> now]}

\* lines 98-99 and, for a device that exists, lines 110-115
DeviceQueryDevice(w) ==
    /\ req[w].pc = "dl_device"
    /\ LET device == DeviceById(req[w].args.device_id)
       IN  IF device = NoDevice
           THEN /\ req' = [req EXCEPT ![w].pc = "dl_insert_device"]
                /\ UNCHANGED issued
           ELSE DeviceRespond(w, device)
    /\ UNCHANGED <<users, devices, scores, now, calls, ticks, pre, installed, audit_logs>>

\* lines 101-115; the commit of a duplicate device_id raises IntegrityError
DeviceInsertDevice(w) ==
    /\ req[w].pc = "dl_insert_device"
    /\ LET device == NewDevice(NextId(devices), req[w].args, req[w].user.id)
       IN  IF DeviceIdTaken(device.device_id)
           THEN Raise(w, 500) /\ UNCHANGED devices
           ELSE /\ devices' = devices \cup {device}
                /\ DeviceRespond(w, device)
    /\ UNCHANGED <<users, scores, now, calls, ticks, pre, installed, audit_logs>>

-----------------------------------------------------------------------------
(* routers/readiness.py: POST /api/v1/readiness *)

StartSubmit(w, inputs) == \E a \in inputs : Begin(w, "submit", a)

NewScore(id, user_id, score_data) ==
    [id |-> id, user_id |-> user_id, timestamp |-> score_data.timestamp,
     overall_score |-> score_data.overall_score, confidence |-> score_data.confidence,
     data |-> score_data.scores]

\* the guard dependency, then lines 102-129
SubmitReadiness(w) ==
    /\ req[w].pc = "submit"
    /\ LET a == req[w].args
           auth_info == get_current_user_id(oauth2_scheme(a.scheme, a.token), now)
       IN  IF auth_info.status # 200
           THEN Raise(w, 401) /\ UNCHANGED scores
           ELSE IF auth_info.role \notin SubmitRoles
           THEN Raise(w, 403) /\ UNCHANGED scores
           ELSE IF HasForbiddenKey(a.scores)
           THEN Raise(w, 403) /\ UNCHANGED scores
           ELSE /\ scores' = scores \cup {NewScore(NextId(scores), auth_info.user_id, a)}
                /\ req' = [req EXCEPT ![w].pc = AfterCallNext(w, 201), ![w].status = 201,
                                      ![w].body = {NewScore(NextId(scores),
                                                            auth_info.user_id, a)}]
                /\ UNCHANGED issued
    /\ UNCHANGED <<users, devices, now, calls, ticks, pre, installed, audit_logs>>

-----------------------------------------------------------------------------
(* routers/readiness.py: the read routes *)

\* a 200 response with its body
Respond(w, body) ==
    /\ req' = [req EXCEPT ![w].pc = AfterCallNext(w, 200), ![w].status = 200,
                          ![w].body = body]
    /\ UNCHANGED issued

\* variant: an admin reads the scores of the user named by user_id_param
HistoryTarget_AdminParam(current_user_id, role, user_id_param) ==
    IF role = "admin" /\ Truthy(user_id_param)
    THEN UserByEmail(user_id_param).id
    ELSE current_user_id

\* lines 144-147: the user whose scores are read; the admin branch is a no-op
HistoryTarget(current_user_id, role, user_id_param) == current_user_id

StartHistory(w, inputs) == \E a \in inputs : Begin(w, "history", a)

\* GET /api/v1/readiness/history: the guard dependency, then lines 137-150;
\* user_id_param is not read
GetHistory(w) ==
    /\ req[w].pc = "history"
    /\ LET a == req[w].args
           auth_info == get_current_user_id(oauth2_scheme(a.scheme, a.token), now)
           target_id == HistoryTarget(auth_info.user_id, auth_info.role, a.param)
       IN  IF auth_info.status # 200
           THEN Raise(w, 401)
           ELSE IF HistoryRefused(auth_info.role)
           THEN Raise(w, 403)
           ELSE Respond(w, {sc \in scores : sc.user_id = target_id})
    /\ UNCHANGED <<users, devices, scores, now, calls, ticks, pre, installed, audit_logs>>

StartLatest(w, inputs) == \E a \in inputs : Begin(w, "latest", a)

\* the rows of a user with the greatest timestamp
LatestOf(user_id) ==
    {sc \in scores : /\ sc.user_id = user_id
                     /\ \A o \in scores : o.user_id = user_id => o.timestamp <= sc.timestamp}

\* GET /api/v1/readiness/{user_id}/latest: the guard dependency, then lines 76-94
GetLatestUserScore(w) ==
    /\ req[w].pc = "latest"
    /\ LET a == req[w].args
           auth_info == get_current_user_id(oauth2_scheme(a.scheme, a.token), now)
           by_email == UserByEmail(a.param)
           user == IF by_email = NoUser /\ IsDigit(a.param)
                   THEN UserById(ToInt(a.param)) ELSE by_email
       IN  IF auth_info.status # 200
           THEN Raise(w, 401)
           ELSE IF user = NoUser
           THEN Raise(w, 404)
           ELSE IF LatestOf(user.id) = {}
           THEN Raise(w, 404)
           ELSE \E score \in LatestOf(user.id) : Respond(w, {score})
    /\ UNCHANGED <<users, devices, scores, now, calls, ticks, pre, installed, audit_logs>>

StartSummary(w, inputs) == \E a \in inputs : Begin(w, "summary", a)

\* one entry of the dashboard list
SummaryEntry(score) ==
    [user_id |-> IF UserById(score.user_id) # NoUser THEN UserById(score.user_id).email
                 ELSE "Unknown",
     latest_score |-> score.overall_score,
     latest_submission |-> score.timestamp]

\* GET /api/v1/readiness/users: the guard dependency, then lines 45-67
GetDashboardSummary(w) ==
    /\ req[w].pc = "summary"
    /\ LET a == req[w].args
           auth_info == get_current_user_id(oauth2_scheme(a.scheme, a.token), now)
           latest_scores == UNION {LatestOf(sc.user_id) : sc \in scores}
       IN  IF auth_info.status # 200
           THEN Raise(w, 401)
           ELSE Respond(w, {SummaryEntry(score) : score \in latest_scores})
    /\ UNCHANGED <<users, devices, scores, now, calls, ticks, pre, installed, audit_logs>>

-----------------------------------------------------------------------------
(* middleware.py: AuditMiddleware *)

\* s.startswith(prefix)
StartsWith(str, prefix) == Slice(str, Len(prefix)) = prefix

\* request.url.path
Path(kind) ==
    CASE kind = "login" -> "/api/v1/auth/login"
      [] kind = "register" -> "/api/v1/auth/register"
      [] kind = "device_login" -> "/api/v1/auth/device-login"
      [] OTHER -> "/api/v1/readiness"

\* lines 27-35: the actor, from the recorder's own reading of the header
\* "<scheme> <token>"; NoId stands for None
ActorOf(a, t) ==
    IF /\ a.token # NoToken
       /\ StartsWith(a.scheme \o " <token>", "Bearer ")
       /\ DecodeOk(a.token, t)
    THEN a.token.user_id
    ELSE NoId

\* lines 38-47
AuditRow(id, kind, a, status, t) ==
    [id |-> id, actor_id |-> ActorOf(a, t),
     action |-> Method(kind) \o " " \o Path(kind),
     target_resource |-> Path(kind),
     status_code |-> status]

\* what can go wrong in log_action: nothing, SessionLocal() raises, the
\* construction of the row raises, the commit raises
AuditFaults == {"none", "session", "row", "commit"}

\* variant: a fault of the audit write becomes the response
DispatchStatus_FaultPropagates(status, fault) == IF fault = "none" THEN status ELSE 500

\* the status dispatch returns: that of call_next; log_action catches its faults
DispatchStatus(status, fault) == status

\* dispatch lines 16-19 and log_action
LogAction(w) ==
    /\ req[w].pc = "audit"
    /\ \E fault \in AuditFaults :
          /\ audit_logs' =
                IF fault = "none"
                THEN audit_logs \cup {AuditRow(NextId(audit_logs), req[w].kind,
                                               req[w].args, req[w].status, now)}
                ELSE audit_logs
          /\ req' = [req EXCEPT ![w].pc = "done", ![w].audit = fault,
                                ![w].status = DispatchStatus(req[w].status, fault)]
    /\ UNCHANGED <<users, devices, scores, issued, now, calls, ticks, pre, installed>>

-----------------------------------------------------------------------------
(* the clock *)

TickSteps == {1, UserTTL - 1, DeviceTTL - 1}

Tick ==
    /\ ticks < MaxTicks
    /\ \E d \in TickSteps : now' = now + d
    /\ ticks' = ticks + 1
    /\ UNCHANGED <<users, devices, scores, req, issued, calls, pre, installed, audit_logs>>

-----------------------------------------------------------------------------
(* the store at start-up: empty, or holding a device that an earlier          *)
(* device_login provisioned and an operator has since unapproved in storage *)

UnapprovedStore(device_id, email) ==
    [users |-> {[id |-> 1, email |-> email, hashed_password |-> None,
                 full_name |-> "Anonymous Device", role |-> "soldier"]},
     devices |-> {[id |-> 1, device_id |-> device_id, user_id |-> 1,
                   is_approved |-> FALSE]}]

InitialStores ==
    {[users |-> {}, devices |-> {}],
     UnapprovedStore("ABC123", SynthEmail("ABC123")),
     UnapprovedStore("ABC123", "bob@x.com")}

\* everything but the middleware stack
Startup ==
    /\ \E s \in InitialStores : users = s.users /\ devices = s.devices
    /\ scores = {}
    /\ req = [w \in Workers |-> Idle]
    /\ issued = {}
    /\ now = 0
    /\ calls = 0
    /\ ticks = 0
    /\ pre = NoStore
    /\ audit_logs = {}

\* main.py builds the application without adding AuditMiddleware to it
Init == Startup /\ installed = FALSE

\* requests served concurrently: the steps of the identity handlers interleave
Next ==
    \E w \in Workers :
        \/ StartLogin(w, RaceLoginInputs) /\ UNCHANGED pre
        \/ LoginQueryUser(w)
        \/ LoginCount(w)
        \/ LoginInsert(w)
        \/ StartRegister(w, RaceRegisterInputs) /\ UNCHANGED pre
        \/ RegisterQueryUser(w)
        \/ RegisterInsert(w)
        \/ StartDeviceLogin(w, RaceDeviceInputs) /\ UNCHANGED pre
        \/ DeviceQueryUser(w)
        \/ DeviceInsertUser(w)
        \/ DeviceUpdateName(w)
        \/ DeviceQueryDevice(w)
        \/ DeviceInsertDevice(w)

Spec == Init /\ [][Next]_vars

\* no request in flight
Quiet == \A w \in Workers : req[w].pc \in {"idle", "done"}

\* the ghost copy of the store, taken with the request
Snapshot == pre' = [users |-> users, devices |-> devices, scores |-> scores]

\* the identity handlers, requests served one after the other
SeqNext ==
    \/ Quiet /\ StartLogin(1, LoginInputs) /\ Snapshot
    \/ Quiet /\ StartRegister(1, RegisterInputs) /\ Snapshot
    \/ Quiet /\ StartDeviceLogin(1, DeviceInputs) /\ Snapshot
    \/ LoginQueryUser(1)
    \/ LoginCount(1)
    \/ LoginInsert(1)
    \/ RegisterQueryUser(1)
    \/ RegisterInsert(1)
    \/ DeviceQueryUser(1)
    \/ DeviceInsertUser(1)
    \/ DeviceUpdateName(1)
    \/ DeviceQueryDevice(1)
    \/ DeviceInsertDevice(1)

SeqSpec == Init /\ [][SeqNext]_vars


\* the handlers that issue a token, run to their response
IssueSteps ==
    \/ LoginQueryUser(1)
    \/ LoginCount(1)
    \/ LoginInsert(1)
    \/ DeviceQueryUser(1)
    \/ DeviceInsertUser(1)
    \/ DeviceQueryDevice(1)
    \/ DeviceInsertDevice(1)

\* the protected routes, with the tokens a login or a device login returned
SubmitNext ==
    \/ Quiet /\ StartLogin(1, IssueLoginInputs) /\ Snapshot
    \/ Quiet /\ StartDeviceLogin(1, IssueDeviceInputs) /\ Snapshot
    \/ Quiet /\ StartSubmit(1, SubmitInputs) /\ Snapshot
    \/ Quiet /\ StartHistory(1, HistoryInputs) /\ Snapshot
    \/ Quiet /\ StartLatest(1, LatestInputs) /\ Snapshot
    \/ Quiet /\ StartSummary(1, SummaryInputs) /\ Snapshot
    \/ IssueSteps
    \/ SubmitReadiness(1)
    \/ GetHistory(1)
    \/ GetLatestUserScore(1)
    \/ GetDashboardSummary(1)

SubmitSpec == Init /\ [][SubmitNext]_vars

\* tokens presented to the guard while the clock advances
ClockNext ==
    \/ Quiet /\ StartLogin(1, IssueLoginInputs) /\ Snapshot
    \/ Quiet /\ StartDeviceLogin(1, IssueDeviceInputs) /\ Snapshot
    \/ Quiet /\ StartSubmit(1, TimedSubmitInputs) /\ Snapshot
    \/ Quiet /\ Tick
    \/ IssueSteps
    \/ SubmitReadiness(1)

ClockSpec == Init /\ [][ClockNext]_vars

\* the store after a login on the empty store and the first login of a device,
\* with the two tokens these calls returned
ProvisionedInit ==
    LET admin == BootstrapUser(1, Args("admin@x.com", "pw1", None, "soldier", "",
                                       NoToken, NoScores))
        device_req == Args(None, "", None, "", "ABCDEFGH1", NoToken, NoScores)
        soldier == AnonymousUser(2, device_req)
    IN  /\ users = {admin, soldier}
        /\ devices = {NewDevice(1, device_req, soldier.id)}
        /\ scores = {}
        /\ req = [w \in Workers |-> Idle]
        /\ issued = {[token |-> create_access_token(UserClaims(admin), 0, 0), at |-> 0],
                     [token |-> create_device_token("ABCDEFGH1", soldier.id, 0), at |-> 0]}
        /\ now = 0
        /\ calls = 0
        /\ ticks = 0
        /\ pre = NoStore
        /\ installed = FALSE
        /\ audit_logs = {}

HistorySubmitInputs ==
    {ScoreCreate(h, CleanScores, ts) : h \in GoodHeaders, ts \in {10, 20}}

\* submissions and history reads on the provisioned store
HistoryNext ==
    \/ Quiet /\ StartSubmit(1, HistorySubmitInputs) /\ Snapshot
    \/ Quiet /\ StartHistory(1, HistoryInputs) /\ Snapshot
    \/ SubmitReadiness(1)
    \/ GetHistory(1)

HistorySpec == ProvisionedInit /\ [][HistoryNext]_vars

\* the application with AuditMiddleware added to it
AuditInit == Startup /\ installed = TRUE

AuditSubmitInputs ==
    {ScoreCreate(h, m, 10) :
        h \in Headers, m \in {CleanScores, [k \in {"hrv", "ECG_Samples"} |-> "55"]}}

\* the mutating routes behind the audit recorder
AuditNext ==
    \/ Quiet /\ StartLogin(1, IssueLoginInputs) /\ Snapshot
    \/ Quiet /\ StartDeviceLogin(1, IssueDeviceInputs) /\ Snapshot
    \/ Quiet /\ StartSubmit(1, AuditSubmitInputs) /\ Snapshot
    \/ IssueSteps
    \/ SubmitReadiness(1)
    \/ LogAction(1)

AuditSpec == AuditInit /\ [][AuditNext]_vars

-----------------------------------------------------------------------------
(* Properties *)

\* worker w has answered a request of the kind
Done(w, kind) == req[w].kind = kind /\ req[w].pc = "done"

\* the response carries a token
Returned(w) == req[w].status = 200 /\ req[w].token # NoToken

\* C1: device_login never fails for identity reasons: a call for a device that
\* was absent or approved when the call was taken ends by returning a device
\* token, whatever device_id, email and full_name it carries.
C1_DeviceLoginNeverFails ==
    (/\ Done(1, "device_login")
     /\ \A d \in pre.devices : d.device_id = req[1].args.device_id => d.is_approved)
        => /\ Returned(1)
           /\ req[1].token.role = "device"

\* C2: when device_login calls run concurrently, then once every call has
\* ended, exactly one Device row carries the device_id of each call (every
\* device_id the calls of Spec carry is unseen before its first call).
C2_ExactlyOneDeviceRow ==
    \A w \in Workers :
        (/\ Quiet
         /\ Done(w, "device_login")
         /\ \A v \in Workers : req[v].kind \in {"idle", "device_login"})
            => Cardinality({d \in devices : d.device_id = req[w].args.device_id}) = 1

\* C3: a device_login call that resolved its user and then found the device
\* absent returns a device token even when another call registers the same
\* device_id first: the unique-constraint violation is not a fatal error.
C3_DuplicateDeviceIsNotFatal ==
    \A w \in Workers :
        (Done(w, "device_login") /\ req[w].user # NoUser)
            => req[w].status # 500

\* C4: a device_login call for a device whose row has is_approved = false ends
\* with 403 and returns no token.
C4_UnapprovedDeviceIsForbidden ==
    (/\ Done(1, "device_login")
     /\ \E d \in pre.devices : d.device_id = req[1].args.device_id /\ ~d.is_approved)
        => /\ req[1].status = 403
           /\ req[1].token = NoToken

\* C5: a login taken while the user store is empty creates exactly one User,
\* with role admin and the email of the request, and returns a token that the
\* guard decodes to that user's id and role admin.
C5_BootstrapAdmin ==
    (Done(1, "login") /\ pre.users = {})
        => /\ Returned(1)
           /\ Cardinality(users) = 1
           /\ \A u \in users :
                /\ u.email = req[1].args.email
                /\ u.role = "admin"
                /\ get_current_user_id(req[1].token, now) =
                       [status |-> 200, user_id |-> u.id, role |-> "admin"]

C5_Witness ==
    /\ Done(1, "login")
    /\ pre.users = {}
    /\ Returned(1)
    /\ req[1].args.email = "bob@x.com"
    /\ req[1].args.password = "pw2"

\* C6: every login call, under every interleaving with other login, register
\* and device_login calls, ends with a token (200) or with 401.
C6_LoginEndsIssuedOrUnauthorized ==
    \A w \in Workers : Done(w, "login") => req[w].status \in {200, 401}

\* the store is as the request found it
StoreUntouched ==
    /\ users = pre.users
    /\ devices = pre.devices
    /\ scores = pre.scores

\* C7: for a user that exists, login returns a token exactly when the password
\* is the one whose hash is stored; otherwise (a mismatch, or a user without a
\* password hash) it ends with 401, returns no token and changes no row.
C7_LoginExistingUser ==
    \A u \in pre.users :
        (Done(1, "login") /\ u.email = req[1].args.email)
            => /\ Returned(1) <=>
                    (/\ u.hashed_password # None
                     /\ u.hashed_password = get_password_hash(req[1].args.password))
               /\ ~Returned(1) => (/\ req[1].status = 401
                                   /\ req[1].token = NoToken
                                   /\ StoreUntouched)
               /\ Returned(1) => req[1].token.user_id = u.id

C7_Witness ==
    \E u \in pre.users :
        /\ Done(1, "login")
        /\ u.email = req[1].args.email
        /\ u.hashed_password = None
        /\ req[1].status = 401

\* C8: register ends with 400 and an unchanged user store when a user with the
\* email exists; otherwise it adds exactly one User, with role admin whatever
\* role the request carries, and returns a user token with role admin.
C8_Register ==
    Done(1, "register") =>
        IF \E u \in pre.users : u.email = req[1].args.email
        THEN /\ req[1].status = 400
             /\ req[1].token = NoToken
             /\ users = pre.users
        ELSE /\ Returned(1)
             /\ Cardinality(users \ pre.users) = 1
             /\ pre.users \subseteq users
             /\ \A u \in users \ pre.users :
                    /\ u.email = req[1].args.email
                    /\ u.role = "admin"
                    /\ req[1].token.role = "admin"
                    /\ req[1].token.user_id = u.id

\* the same email registered a second time
C8_Witness ==
    /\ Done(1, "register")
    /\ req[1].status = 400
    /\ req[1].args.role = "commander"
    /\ \E u \in pre.users :
          /\ u.email = req[1].args.email
          /\ u.full_name \in {"New Admin", "Ann"}
          /\ u.role = "admin"

\* the time to live of a token, by the flow that issued it
TTLOf(token) == IF token.role = "device" THEN DeviceTTL ELSE UserTTL

\* C9: a token issued at time T with time to live t decodes at every time up to
\* T + t - 1 and is refused with 401 at every time from T + t + 1 on.
C9_TokenExpiry ==
    \A g \in issued :
        /\ now <= g.at + TTLOf(g.token) - 1
              => get_current_user_id(g.token, now).status = 200
        /\ now >= g.at + TTLOf(g.token) + 1
              => get_current_user_id(g.token, now).status = 401
        /\ (Done(1, "submit") /\ req[1].args.token = g.token /\ req[1].status = 401)
              => now > g.at + TTLOf(g.token) - 1

\* a device token presented one second after its 90 days
C9_Witness ==
    \E g \in issued :
        /\ g.token.role = "device"
        /\ now = g.at + DeviceTTL + 1
        /\ Done(1, "submit")
        /\ req[1].args.token = g.token
        /\ req[1].status = 401

\* a key of the map contains, whatever its case, a denylisted substring
C10_Flagged(scoreMap) ==
    \E key \in DOMAIN scoreMap :
        \E bad \in {"samples", "series", "ecg", "raw_oxygen"} :
            Contains(Lower(key), bad)

\* the caller's token decodes and carries a role allowed to submit
C10_AllowedCaller(token) ==
    /\ get_current_user_id(token, now).status = 200
    /\ token.role \in {"device", "admin", "soldier"}

\* C10: a submission by an allowed caller (its token sent as a bearer token)
\* whose scores map has a flagged key ends with 403 and leaves the
\* ReadinessScore rows as they were.
C10_RawDataRejected ==
    (/\ Done(1, "submit")
     /\ Lower(req[1].args.scheme) = "bearer"
     /\ C10_AllowedCaller(req[1].args.token)
     /\ C10_Flagged(req[1].args.scores))
        => /\ req[1].status = 403
           /\ scores = pre.scores

C10_Witness ==
    /\ Done(1, "submit")
    /\ req[1].args.scheme = "Bearer"
    /\ req[1].args.token.role = "device"
    /\ C10_AllowedCaller(req[1].args.token)
    /\ "ECG_Samples" \in DOMAIN req[1].args.scores
    /\ req[1].status = 403
    /\ scores # {}

\* the token the guard reads from the request's Authorization header decodes
\* and carries a user_id
Decoded(a) ==
    LET token == IF a.token # NoToken /\ Lower(a.scheme) = "bearer" THEN a.token
                 ELSE NoToken
    IN  /\ token # NoToken
        /\ token.sig = "HS256:secret_key"
        /\ token.exp >= now
        /\ token.user_id # 0

\* the rows the request added to the ReadinessScore table
AddedScores == scores \ pre.scores

\* C11: a device-role token that decodes is answered 403, with no scores, on
\* the history read; a submission with the same kind of token and a scores map
\* that passes the denylist ends with 201 and adds exactly one ReadinessScore
\* row, owned by the token's user.
C11_DeviceSubmitsButCannotRead ==
    LET a == req[1].args
    IN  (Decoded(a) /\ a.token.role = "device")
           => /\ Done(1, "history") => (req[1].status = 403 /\ req[1].body = {})
              /\ (Done(1, "submit") /\ ~C10_Flagged(a.scores))
                    => /\ req[1].status = 201
                       /\ pre.scores \subseteq scores
                       /\ Cardinality(AddedScores) = 1
                       /\ \A sc \in AddedScores :
                              sc.user_id = a.token.user_id /\ sc.data = a.scores

\* a device reads the history after its submission was stored
C11_Witness ==
    /\ Done(1, "history")
    /\ Decoded(req[1].args)
    /\ req[1].args.token.role = "device"
    /\ \E g \in issued : g.token = req[1].args.token
    /\ \E sc \in scores : sc.user_id = req[1].args.token.user_id
    /\ req[1].status = 403

\* C12: the history read is open to the roles soldier and admin only: a token
\* that decodes and whose role is any other value (device, commander, absent)
\* is answered 403 and receives no scores.
C12_HistoryAllowedSet ==
    (/\ Done(1, "history")
     /\ Decoded(req[1].args)
     /\ req[1].args.token.role \notin {"soldier", "admin"})
        => /\ req[1].status = 403
           /\ req[1].body = {}

\* C13: a submission whose token decodes and whose role is outside device,
\* admin, soldier (or absent) ends with 403 and adds no ReadinessScore row,
\* whatever scores map it carries.
C13_SubmitAllowedSet ==
    (/\ Done(1, "submit")
     /\ Decoded(req[1].args)
     /\ req[1].args.token.role \notin {"device", "admin", "soldier"})
        => /\ req[1].status = 403
           /\ scores = pre.scores

\* a commander token with a clean map
C13_Witness ==
    /\ Done(1, "submit")
    /\ Decoded(req[1].args)
    /\ req[1].args.token.role = "commander"
    /\ req[1].args.scores = CleanScores
    /\ req[1].status = 403

\* C14: every POST request the application has answered (login, register,
\* device-login), whatever its status, has written exactly one AuditLog row:
\* with no request in flight there are as many rows as requests.
C14_OneAuditRowPerRequest ==
    Quiet => Cardinality(audit_logs) = calls

\* C15: the audit write, whether it succeeds or fails (the session, the row or
\* the commit raising), changes neither the response of the request nor a row
\* of the users, devices and readiness_scores tables.
C15_AuditFailureIsSilent ==
    [][\A w \in Workers :
          (req[w].pc = "audit" /\ req'[w].pc = "done")
             => /\ req'[w].status = req[w].status
                /\ req'[w].token = req[w].token
                /\ req'[w].body = req[w].body
                /\ users' = users
                /\ devices' = devices
                /\ scores' = scores]_vars

\* a submission that was stored and whose audit commit failed
C15_Witness ==
    /\ Done(1, "submit")
    /\ req[1].audit = "commit"
    /\ req[1].status = 201
    /\ AddedScores # {}
    /\ audit_logs = {}

C17_DeviceOwnerExists ==
    \A d \in devices : \E u \in users : u.id = d.user_id

\* two devices provisioned by device_login, one of them for a user that existed
C17_Witness ==
    /\ Quiet
    /\ Cardinality({d \in devices : d.is_approved}) = 2
    /\ \E d \in devices : d.is_approved /\ d.id # d.user_id

\* the call is a device_login without email for a device_id that no Device row
\* carried
C18_UnseenDeviceNoEmail ==
    /\ Done(1, "device_login")
    /\ req[1].args.email = None
    /\ \A d \in pre.devices : d.device_id # req[1].args.device_id

\* what the call leaves behind but for the email of the user: one User with
\* role soldier and no password hash, one approved Device linked to it, a
\* token with sub "device:<device_id>", role device, the user's id, 90 days
C18_Provisioned(email) ==
    /\ Returned(1)
    /\ pre.users \subseteq users
    /\ pre.devices \subseteq devices
    /\ Cardinality(users \ pre.users) = 1
    /\ Cardinality(devices \ pre.devices) = 1
    /\ \A u \in users \ pre.users : \A d \in devices \ pre.devices :
          /\ u.role = "soldier"
          /\ u.hashed_password = None
          /\ u.email = email
          /\ d.device_id = req[1].args.device_id
          /\ d.user_id = u.id
          /\ d.is_approved
          /\ req[1].token.sub = "device:" \o req[1].args.device_id
          /\ req[1].token.role = "device"
          /\ req[1].token.user_id = u.id
          /\ req[1].token.exp = now + 90 * 86400

\* C18: a device_login without email for an unseen device_id, on a store with
\* no user derived from that device id, creates exactly one User with role
\* soldier, no password hash and the email device_<lower-cased device id>@atlas.local
\* (device_abc123@... for ABC123), creates one approved Device linked to it, and
\* returns a token with sub "device:<device_id>", role device, that user's id
\* and an expiry 90 days after issue.
C18_FirstDeviceLogin ==
    LET lowered == "device_" \o Lower(req[1].args.device_id) \o "@atlas.local"
        kept == "device_" \o SubSeq(req[1].args.device_id, 1,
                                    Min(8, Len(req[1].args.device_id))) \o "@atlas.local"
    IN  (/\ C18_UnseenDeviceNoEmail
         /\ \A u \in pre.users : u.email \notin {lowered, kept})
            => C18_Provisioned(lowered)

\* C19: after any interleaving of concurrent logins, at most one User has
\* been created by login (the rows login creates are named "System Admin").
C19_AtMostOneBootstrap ==
    Cardinality({u \in users : u.full_name = "System Admin"}) <= 1

\* C20: on every protected route (submit, history, latest, dashboard summary)
\* a request whose token is missing, expired, wrongly signed, under another
\* scheme or without user_id is answered 401 and changes no row, whatever its
\* role claim and scores map; 403 is only given to a request whose token decoded.
C20_AuthenticationFirst ==
    (req[1].pc = "done" /\ req[1].kind \in {"submit", "history", "latest", "summary"})
        => /\ ~Decoded(req[1].args) => (req[1].status = 401 /\ StoreUntouched)
           /\ req[1].status = 403 => Decoded(req[1].args)

\* a signed commander token without user_id carrying a flagged map
C20_Witness ==
    /\ Done(1, "submit")
    /\ req[1].args.token.sig = GoodSig
    /\ req[1].args.token.exp >= now
    /\ req[1].args.token.user_id = NoId
    /\ req[1].args.token.role = "commander"
    /\ C10_Flagged(req[1].args.scores)
    /\ req[1].status = 401

\* one of the words is, whatever the case, a substring of a top-level key
C21_KeysFlagged(keys) ==
    \E key \in keys :
        \E bad \in {"samples", "series", "ecg", "raw_oxygen"} : Contains(Lower(key), bad)

C22_Enriches(a, u) ==
    /\ a.full_name \notin {None, ""}
    /\ u.full_name \in {"Anonymous Device", None, ""}

\* C22: a device_login leaves every user that existed with its id, email, role
\* and password hash; the full_name of the user it resolved by email becomes
\* the supplied name exactly when a name is supplied and the stored name is
\* 'Anonymous Device' or empty, and no other name changes; when it resolved a
\* user it adds none; the same call made again would change no name.
C22_NameEnrichment ==
    LET a == req[1].args
    IN  Done(1, "device_login")
          => /\ \A u \in pre.users : \E v \in users :
                   /\ v.id = u.id
                   /\ v.email = u.email
                   /\ v.role = u.role
                   /\ v.hashed_password = u.hashed_password
                   /\ v.full_name = IF u.email = a.email /\ C22_Enriches(a, u)
                                    THEN a.full_name ELSE u.full_name
             /\ (\E u \in pre.users : u.email = a.email)
                   => Cardinality(users) = Cardinality(pre.users)
             /\ \A v \in users :
                   (v.email = a.email /\ C22_Enriches(a, v)) => v.full_name = a.full_name

\* an anonymous device user is given its name
C22_Witness ==
    /\ Done(1, "device_login")
    /\ req[1].args.full_name = "Bob"
    /\ \E u \in pre.users : /\ u.email = req[1].args.email
                             /\ u.full_name = "Anonymous Device"
    /\ \E v \in users : v.email = req[1].args.email /\ v.full_name = "Bob"
    /\ \E u \in pre.users : u.full_name = "Ann"
    /\ \E v \in users : v.full_name = "Ann"

C24_TokenBoundToOwner ==
    (Done(1, "device_login") /\ Returned(1))
        => \E d \in devices :
              /\ d.device_id = req[1].args.device_id
              /\ req[1].token.user_id = d.user_id

\* C25: a device_login that ends with 403 leaves the users table as it found
\* it: no row added, no full_name changed.
C25_ForbiddenLeavesUsers ==
    (Done(1, "device_login") /\ req[1].status = 403) => users = pre.users

\* C26: every token handed out carries role admin or role device; a token
\* returned by login or register carries the stored role, admin, of a user
\* with a password hash, a token returned by device_login carries role device;
\* no token with role soldier is issued.
C26_RoleByFlow ==
    /\ \A g \in issued :
          /\ g.token.role \in {"admin", "device"}
          /\ g.token.role = "admin"
                => \E u \in users : /\ u.id = g.token.user_id
                                     /\ u.email = g.token.sub
                                     /\ u.role = "admin"
                                     /\ u.hashed_password # None
    /\ \A w \in Workers :
          /\ ((Done(w, "login") \/ Done(w, "register")) /\ Returned(w))
                => req[w].token.role = "admin"
          /\ (Done(w, "device_login") /\ Returned(w)) => req[w].token.role = "device"

\* a device token and an admin token are out while a soldier without a
\* password hash is stored
C26_Witness ==
    /\ \E g \in issued : g.token.role = "admin"
    /\ \E g \in issued :
          /\ g.token.role = "device"
          /\ \E u \in users : /\ u.id = g.token.user_id
                               /\ u.role = "soldier"
                               /\ u.hashed_password = None

\* no two rows of users share an email, no two rows of devices a device_id
C27_Unique ==
    /\ \A u, v \in users : u.email = v.email => u = v
    /\ \A d, e \in devices : d.device_id = e.device_id => d = e

\* C27: under every interleaving of login, register and device_login calls,
\* every step leaves the emails of the User rows and the device_ids of the
\* Device rows pairwise distinct, and keeps every User and every Device row.
C27_UniqueAndKept ==
    [][/\ C27_Unique'
       /\ \A u \in users : \E v \in users' : v.id = u.id /\ v.email = u.email
       /\ \A d \in devices : d \in devices']_vars

\* two calls inserted the same email and the same device_id at once: one of
\* each was refused and the rows stayed distinct
C27_Witness ==
    /\ Quiet
    /\ req[1].status = 500
    /\ req[2].status = 200
    /\ req[1].kind = "device_login"
    /\ req[2].kind = "device_login"
    /\ req[1].args.device_id = req[2].args.device_id
    /\ Cardinality(users) >= 2
    /\ C27_Unique

====
